---- MODULE Spec2Model ----
(***************************************************************************)
(* Model of main.py: the call-log exporter.                                *)
(*                                                                         *)
(*   fetch_call_logs  - cursor pagination against the call-log API         *)
(*   calculate_duration / filter_calls - the relevance filter              *)
(*   update_google_sheet, update_<pair>, main - the per-pair pipeline      *)
(*                                                                         *)
(* The call-log API and the spreadsheet are the environment.  The API      *)
(* holds, per assistant, a list of call records kept newest first; it      *)
(* answers a page request with the (up to params.limit) newest records     *)
(* whose createdAt is strictly below the createdAtLt cursor, or fails.     *)
(* Between two page requests records may be added to or removed from it.   *)
(*                                                                         *)
(* Text timestamps are modelled by what datetime.fromisoformat makes of    *)
(* them: a text has a form ("Z": ends in Z, "offset": carries +hh:mm,      *)
(* "naive": no offset, "malformed": not ISO-8601), a wall-clock reading    *)
(* `local` and an offset `off`, both in seconds.  JSON null is NoneValue.  *)
(* createdAt is modelled by an integer (larger = later).                   *)
(***************************************************************************)
EXTENDS Integers, Sequences, FiniteSets, TLC

VARIABLES
    sheet_name,     \* main's argument (NoName: no argument given)
    pc,             \* "main" | "fetch" | "filter" | "write" | "done" | "raised"
    todo,           \* the update_<pair> calls main still has to make, current first
    params,         \* fetch_call_logs: the query parameters of the next request
    all_calls,      \* fetch_call_logs: the records accumulated so far
    min_duration,   \* filter_calls: the threshold
    filtered_calls, \* filter_calls: the rows returned
    error,          \* the exception that ended the run ("" when none)
    db,             \* the API: assistant id -> its records, newest first
    sheet,          \* the spreadsheet: range -> the values last written to it
    log,            \* history: every page request, write and message of the run
    changes         \* history: number of additions/removals the API has seen

vars == <<sheet_name, pc, todo, params, all_calls, min_duration, filtered_calls,
          error, db, sheet, log, changes>>

-----------------------------------------------------------------------------
(* Bounds of the model *)

\* additions/removals of records at the API during one run
MaxChanges == 2
\* page requests one run may issue (never reached by the program itself)
MaxRequests == 6
\* length of the record lists handed to filter_calls on its own
MaxCalls == 2
\* largest number of records sharing one createdAt in the generated record sets
MaxTie == 2

-----------------------------------------------------------------------------
(* Static configuration *)

LIMIT == 100

NoName == "<None>"

PairNames == <<"pepfactor_outbound", "pepfactor_inbound",
               "greycorp_outbound", "greycorp_inbound">>

Range(s) == {s[i] : i \in 1..Len(s)}

\* the environment's assistant ids, assumed pairwise distinct
AssistantId(pair) ==
    CASE pair = "pepfactor_outbound" -> "ASSISTANT_ID"
      [] pair = "pepfactor_inbound"  -> "INBOUND_ASSISTANT_ID"
      [] pair = "greycorp_outbound"  -> "GREYCORP_OUT_ASSISTANT_ID"
      [] pair = "greycorp_inbound"   -> "GREYCORP_IN_ASSISTANT_ID"

Assistants == {AssistantId(p) : p \in Range(PairNames)}

RANGE_NAME(pair) == pair \o "!A1:H"

Ranges == {RANGE_NAME(p) : p \in Range(PairNames)}

HeaderRow == <<"ID", "Phone Number", "Duration (seconds)", "Start Time",
               "End Time", "Summary", "Success Evaluation", "Transcript">>

-----------------------------------------------------------------------------
(* Values of the JSON call records *)

\* JSON null / Python None
NoneValue == [null |-> TRUE]

IsNone(v) == "null" \in DOMAIN v

\* the empty dict {}
EmptyDict == [k \in {} |-> ""]

\* a timestamp text
Text(form, local, off) == [form |-> form, local |-> local, off |-> off]

\* dict.get(key, default)
Get(dict, key, default) == IF key \in DOMAIN dict THEN dict[key] ELSE default

\* dict with dict[key] = value added or replaced
With(dict, key, value) ==
    [k \in DOMAIN dict \cup {key} |-> IF k = key THEN value ELSE dict[k]]

-----------------------------------------------------------------------------
(* calculate_duration *)

\* str.replace('Z', '+00:00'): a trailing Z becomes the offset +00:00
ReplaceZ(text) ==
    IF text.form = "Z" THEN Text("offset", text.local, 0) ELSE text

\* datetime.fromisoformat: ValueError on a malformed text; an aware datetime
\* (its instant in UTC) for a text with an offset, a naive one otherwise
FromIsoFormat(text) ==
    CASE text.form = "offset" -> [exc |-> "", aware |-> TRUE,  t |-> text.local - text.off]
      [] text.form = "naive"  -> [exc |-> "", aware |-> FALSE, t |-> text.local]
      [] OTHER                -> [exc |-> "ValueError", aware |-> FALSE, t |-> 0]

\* one of lines 64/65: None has no .replace (AttributeError)
ParseTime(time) ==
    IF IsNone(time)
    THEN [exc |-> "AttributeError", aware |-> FALSE, t |-> 0]
    ELSE FromIsoFormat(ReplaceZ(time))

\* (end - start).total_seconds(): TypeError when exactly one of them is aware
calculate_duration(start_time, end_time) ==
    LET start == ParseTime(start_time)
        end   == ParseTime(end_time)
    IN  CASE start.exc # ""            -> [exc |-> start.exc, duration |-> 0]
          [] end.exc # ""              -> [exc |-> end.exc, duration |-> 0]
          [] start.aware # end.aware   -> [exc |-> "TypeError", duration |-> 0]
          [] OTHER                     -> [exc |-> "", duration |-> end.t - start.t]

-----------------------------------------------------------------------------
(* filter_calls *)

\* lines 77-88: the row of a call that passed the duration test
MakeRow(call, duration) ==
    LET customer == Get(call, "customer", EmptyDict)
        analysis == Get(call, "analysis", EmptyDict)
    IN  IF IsNone(customer) \/ IsNone(analysis)
        THEN [exc |-> "AttributeError", rows |-> <<>>]
        ELSE [exc |-> "",
              rows |-> << << call.id,
                             Get(customer, "number", "N/A"),
                             duration,
                             call.startedAt,
                             call.endedAt,
                             Get(analysis, "summary", "N/A"),
                             Get(analysis, "successEvaluation", "N/A"),
                             call.transcript >> >>]

\* lines 73-90: the body of the loop for one call; exc is the exception that
\* leaves the loop ("" when none does), rows the rows appended
ProcessCall(call, min) ==
    IF ~("startedAt" \in DOMAIN call /\ "endedAt" \in DOMAIN call)
    THEN [exc |-> "", rows |-> <<>>]
    ELSE LET d == calculate_duration(call.startedAt, call.endedAt)
         IN  CASE d.exc = "ValueError" -> [exc |-> "", rows |-> <<>>]
               [] d.exc # ""           -> [exc |-> d.exc, rows |-> <<>>]
               [] d.duration > min     -> MakeRow(call, d.duration)
               [] OTHER                -> [exc |-> "", rows |-> <<>>]

\* lines 71-91: the loop over calls, in input order.  The first exception that
\* leaves the loop body ends filter_calls; otherwise the appended rows are
\* returned in the order of their calls.
FilterLoop(calls, min) ==
    LET outcome == [i \in 1..Len(calls) |-> ProcessCall(calls[i], min)]
        raising == {i \in 1..Len(calls) : outcome[i].exc # ""}
        first   == CHOOSE i \in raising : \A j \in raising : i <= j
        kept    == SelectSeq(outcome, LAMBDA r : Len(r.rows) = 1)
    IN  IF raising # {}
        THEN [exc |-> outcome[first].exc, rows |-> <<>>]
        ELSE [exc |-> "", rows |-> [k \in 1..Len(kept) |-> kept[k].rows[1]]]

\* filter_calls(calls, min_duration): the rows returned, or the exception raised
filter_calls(calls, min) == FilterLoop(calls, min)

-----------------------------------------------------------------------------
(* The call-log API (environment) *)

\* a well-formed call record: started at 0, lasting 19, 20 or 21 seconds
MkCall(a, i, t) ==
    [id |-> i, assistantId |-> a, createdAt |-> t,
     startedAt |-> Text("Z", 0, 0), endedAt |-> Text("Z", 19 + (i % 3), 0),
     transcript |-> "transcript"]

\* n records of assistant a, newest first, tie of them sharing each createdAt
Records(a, n, tie) ==
    [j \in 1..n |-> MkCall(a, n - j + 1, ((n - j) \div tie) + 1)]

\* the answer to GET url?assistantId=..&limit=..[&createdAtLt=..]
ServerPage(records, p) ==
    LET below == IF "createdAtLt" \in DOMAIN p
                 THEN SelectSeq(records, LAMBDA r : r.createdAt < p.createdAtLt)
                 ELSE records
    IN  SubSeq(below, 1, IF Len(below) < p.limit THEN Len(below) ELSE p.limit)

\* records with r inserted, ahead of the records that are not newer than it
Insert(records, r) ==
    LET newer == SelectSeq(records, LAMBDA x : x.createdAt > r.createdAt)
    IN  newer \o <<r>> \o SubSeq(records, Len(newer) + 1, Len(records))

Remove(records, k) ==
    SubSeq(records, 1, k - 1) \o SubSeq(records, k + 1, Len(records))

AddTimes(records) ==
    {1} \cup (IF records = <<>> THEN {} ELSE {records[1].createdAt + 1})

RemovePositions(records) == {1, LIMIT + 1, Len(records)} \cap (1..Len(records))

-----------------------------------------------------------------------------
(* fetch_call_logs *)

\* lines 31-34
InitialParams(assistant_id) == [assistantId |-> assistant_id, limit |-> LIMIT]

\* line 50 with <= for <: a full page is taken for the last one
LastPage_OffByOne(p, data) == Len(data) <= p.limit

\* line 50
LastPage(p, data) == Len(data) < p.limit

\* line 57 with data[0] for data[-1]: the cursor is the newest record's createdAt
NextParams_FirstRecord(p, data) == With(p, "createdAtLt", data[1].createdAt)

\* line 57
NextParams(p, data) == With(p, "createdAtLt", data[Len(data)].createdAt)

NumRequests == Cardinality({i \in 1..Len(log) : log[i].kind = "request"})

\* lines 39-57, the response being a success carrying `data`
PageRequestOk ==
    /\ pc = "fetch"
    /\ NumRequests < MaxRequests
    /\ LET data == ServerPage(db[params.assistantId], params)
       IN  /\ log' = Append(log, [kind |-> "request", params |-> params,
                                  ok |-> TRUE, data |-> data])
           /\ all_calls' = all_calls \o data
           /\ IF LastPage(params, data)
              THEN pc' = "filter" /\ params' = params
              ELSE pc' = "fetch" /\ params' = NextParams(params, data)
    /\ UNCHANGED <<sheet_name, todo, min_duration, filtered_calls, error, db,
                   sheet, changes>>

\* lines 39-40 without raise_for_status: the failed response ends the loop and
\* the records accumulated so far are returned
PageRequestFails_Ignored ==
    /\ pc = "fetch"
    /\ NumRequests < MaxRequests
    /\ log' = Append(log, [kind |-> "request", params |-> params,
                           ok |-> FALSE, data |-> <<>>])
    /\ pc' = "filter"
    /\ UNCHANGED <<sheet_name, todo, params, all_calls, min_duration,
                   filtered_calls, error, db, sheet, changes>>

\* lines 39-40, raise_for_status raising on a non-success status
PageRequestFails ==
    /\ pc = "fetch"
    /\ NumRequests < MaxRequests
    /\ log' = Append(log, [kind |-> "request", params |-> params,
                           ok |-> FALSE, data |-> <<>>])
    /\ pc' = "raised"
    /\ error' = "HTTPError"
    /\ UNCHANGED <<sheet_name, todo, params, all_calls, min_duration,
                   filtered_calls, db, sheet, changes>>

\* a call is created at the API while a fetch is under way (the calls created
\* during a run carry negative ids, those present at its start positive ones)
ServerAdd ==
    /\ pc = "fetch"
    /\ changes < MaxChanges
    /\ \E t \in AddTimes(db[params.assistantId]) :
          db' = [db EXCEPT ![params.assistantId] =
                    Insert(@, MkCall(params.assistantId, -(changes + 1), t))]
    /\ changes' = changes + 1
    /\ UNCHANGED <<sheet_name, pc, todo, params, all_calls, min_duration,
                   filtered_calls, error, sheet, log>>

\* a call is deleted at the API while a fetch is under way
ServerRemove ==
    /\ pc = "fetch"
    /\ changes < MaxChanges
    /\ \E k \in RemovePositions(db[params.assistantId]) :
          db' = [db EXCEPT ![params.assistantId] = Remove(@, k)]
    /\ changes' = changes + 1
    /\ UNCHANGED <<sheet_name, pc, todo, params, all_calls, min_duration,
                   filtered_calls, error, sheet, log>>

-----------------------------------------------------------------------------
(* One fetch_call_logs call on its own *)

FetchSizes == {0, 37, 99, 100, 101, 200, 237}

FetchPair == "pepfactor_outbound"

FetchInit ==
    /\ sheet_name = FetchPair
    /\ pc = "fetch"
    /\ todo = <<FetchPair>>
    /\ params = InitialParams(AssistantId(FetchPair))
    /\ all_calls = <<>>
    /\ min_duration = 20
    /\ filtered_calls = <<>>
    /\ error = ""
    /\ \E n \in FetchSizes, tie \in 1..MaxTie :
          db = [a \in Assistants |->
                   IF a = AssistantId(FetchPair) THEN Records(a, n, tie) ELSE <<>>]
    /\ sheet = [r \in Ranges |-> <<>>]
    /\ log = <<>>
    /\ changes = 0

FetchNext == PageRequestOk \/ PageRequestFails \/ ServerAdd \/ ServerRemove

FetchSpec == FetchInit /\ [][FetchNext]_vars

\* the same against an API that never fails
FetchNextOk == PageRequestOk \/ ServerAdd \/ ServerRemove

\* the loop of fetch_call_logs is synchronous: it always issues its next request
LiveFetchSpec == FetchInit /\ [][FetchNextOk]_vars /\ WF_vars(PageRequestOk)

-----------------------------------------------------------------------------
(* filter_calls as a step of the pipeline, and on its own *)

\* lines 108/116/124/132: filtered = filter_calls(calls), the default threshold
FilterStep ==
    /\ pc = "filter"
    /\ LET r == filter_calls(all_calls, min_duration)
       IN  IF r.exc = ""
           THEN pc' = "write" /\ filtered_calls' = r.rows /\ error' = error
           ELSE pc' = "raised" /\ filtered_calls' = <<>> /\ error' = r.exc
    /\ UNCHANGED <<sheet_name, todo, params, all_calls, min_duration, db, sheet,
                   log, changes>>

\* timestamp texts of the sample calls: start at instant 0, end at 20, 21 or 22
StartTexts == {Text("Z", 0, 0), Text("offset", 3600, 3600), Text("naive", 0, 0),
               Text("malformed", 0, 0), NoneValue}

EndTexts == {Text("Z", 20, 0), Text("Z", 21, 0), Text("offset", 3622, 3600),
             Text("naive", 21, 0), Text("malformed", 0, 0), NoneValue}

CustomerValues == {EmptyDict, [number |-> "+15550100"], NoneValue}

AnalysisValues == {EmptyDict, [summary |-> "summary"],
                   [successEvaluation |-> "true"],
                   [summary |-> "summary", successEvaluation |-> "true"],
                   NoneValue}

BaseCall == [id |-> 0, transcript |-> "transcript"]

GoodCall == With(With(BaseCall, "startedAt", Text("Z", 0, 0)),
                 "endedAt", Text("Z", 21, 0))

\* the sample calls: every combination of timestamps (either may be absent)
\* without optional fields, and a qualifying call with every combination of
\* the optional fields (either may be absent)
SampleCalls ==
    {BaseCall}
    \cup {With(BaseCall, "startedAt", s) : s \in StartTexts}
    \cup {With(BaseCall, "endedAt", e) : e \in EndTexts}
    \cup {With(With(BaseCall, "startedAt", s), "endedAt", e) :
              s \in StartTexts, e \in EndTexts}
    \cup {With(GoodCall, "customer", c) : c \in CustomerValues}
    \cup {With(GoodCall, "analysis", a) : a \in AnalysisValues}
    \cup {With(With(GoodCall, "customer", c), "analysis", a) :
              c \in CustomerValues, a \in AnalysisValues}

MinDurations == {20, 21}

FilterInit ==
    /\ sheet_name = NoName
    /\ pc = "filter"
    /\ todo = <<>>
    /\ params = EmptyDict
    /\ \E n \in 1..MaxCalls :
          \E cs \in [1..n -> SampleCalls] :
             all_calls = [i \in 1..n |-> With(cs[i], "id", i)]
    /\ min_duration \in MinDurations
    /\ filtered_calls = <<>>
    /\ error = ""
    /\ db = [a \in Assistants |-> <<>>]
    /\ sheet = [r \in Ranges |-> <<>>]
    /\ log = <<>>
    /\ changes = 0

FilterNext == FilterStep

FilterSpec == FilterInit /\ [][FilterNext]_vars

-----------------------------------------------------------------------------
(* update_google_sheet, update_<pair>, main *)

\* lines 139-156 with the final else running every update_<pair>
MainPlan_FallsThrough(name) ==
    CASE name = "pepfactor_outbound" -> <<"pepfactor_outbound">>
      [] name = "pepfactor_inbound"  -> <<"pepfactor_inbound">>
      [] name = "greycorp_outbound"  -> <<"greycorp_outbound">>
      [] name = "greycorp_inbound"   -> <<"greycorp_inbound">>
      [] OTHER                       -> PairNames

\* lines 139-156: the update_<pair> functions main calls, in order
MainPlan(name) ==
    CASE name = NoName               -> PairNames
      [] name = "pepfactor_outbound" -> <<"pepfactor_outbound">>
      [] name = "pepfactor_inbound"  -> <<"pepfactor_inbound">>
      [] name = "greycorp_outbound"  -> <<"greycorp_outbound">>
      [] name = "greycorp_inbound"   -> <<"greycorp_inbound">>
      [] OTHER                       -> <<>>

\* line 115 left as copied from line 107: the inbound pair fetches the
\* outbound assistant's calls
FetchedAssistant_CopyPaste(pair) ==
    IF pair = "pepfactor_inbound"
    THEN AssistantId("pepfactor_outbound")
    ELSE AssistantId(pair)

\* lines 107/115/123/131: the assistant id update_<pair> fetches
FetchedAssistant(pair) == AssistantId(pair)

\* lines 109-110/117-118/...: the range and the values update_<pair> writes
WrittenRange(pair) == RANGE_NAME(pair)

WrittenValues(rows) == <<HeaderRow>> \o rows

\* control enters the first update_<pair> of `pairs`, or main returns
Enter(pairs) ==
    /\ todo' = pairs
    /\ filtered_calls' = <<>>
    /\ IF pairs = <<>>
       THEN pc' = "done" /\ params' = EmptyDict /\ all_calls' = <<>>
       ELSE /\ pc' = "fetch"
            /\ params' = InitialParams(FetchedAssistant(pairs[1]))
            /\ all_calls' = <<>>

Main ==
    /\ pc = "main"
    /\ IF MainPlan(sheet_name) = <<>>
       THEN log' = Append(log, [kind |-> "print", text |-> "Invalid sheet name"])
       ELSE log' = log
    /\ Enter(MainPlan(sheet_name))
    /\ UNCHANGED <<sheet_name, min_duration, error, db, sheet, changes>>

\* lines 94-104 succeeding, then the next update_<pair>
WriteOk ==
    /\ pc = "write"
    /\ LET range  == WrittenRange(todo[1])
           values == WrittenValues(filtered_calls)
       IN  /\ sheet' = [sheet EXCEPT ![range] = values]
           /\ log' = Append(log, [kind |-> "write", range |-> range,
                                  values |-> values, ok |-> TRUE])
    /\ Enter(Tail(todo))
    /\ UNCHANGED <<sheet_name, min_duration, error, db, changes>>

\* the header written by one update call and the rows by a second, which fails
WriteFails_Partial ==
    /\ pc = "write"
    /\ sheet' = [sheet EXCEPT ![WrittenRange(todo[1])] = <<HeaderRow>>]
    /\ log' = Append(log, [kind |-> "write", range |-> WrittenRange(todo[1]),
                           values |-> WrittenValues(filtered_calls), ok |-> FALSE])
    /\ pc' = "raised"
    /\ error' = "HttpError"
    /\ UNCHANGED <<sheet_name, todo, params, all_calls, min_duration,
                   filtered_calls, db, changes>>

\* lines 94-104 raising (credentials, network, API error): nothing is written
WriteFails ==
    /\ pc = "write"
    /\ log' = Append(log, [kind |-> "write", range |-> WrittenRange(todo[1]),
                           values |-> WrittenValues(filtered_calls), ok |-> FALSE])
    /\ pc' = "raised"
    /\ error' = "HttpError"
    /\ UNCHANGED <<sheet_name, todo, params, all_calls, min_duration,
                   filtered_calls, db, sheet, changes>>

SheetNames == {NoName, "no_such_sheet"} \cup Range(PairNames)

\* an assistant's calls at the start of a run: one short call, or more than a
\* page of calls; the newest call of `open` is still in progress (endedAt null)
InitialRecords(a, big, open) ==
    LET rs == Records(a, IF a = big THEN LIMIT + 1 ELSE 1, 1)
    IN  IF a = open THEN [rs EXCEPT ![1].endedAt = NoneValue] ELSE rs

Init ==
    /\ sheet_name \in SheetNames
    /\ pc = "main"
    /\ todo = <<>>
    /\ params = EmptyDict
    /\ all_calls = <<>>
    /\ min_duration = 20
    /\ filtered_calls = <<>>
    /\ error = ""
    /\ \E big \in Assistants, open \in Assistants \cup {""} :
          db = [a \in Assistants |-> InitialRecords(a, big, open)]
    /\ sheet = [r \in Ranges |-> <<>>]
    /\ log = <<>>
    /\ changes = 0

Next ==
    \/ Main
    \/ PageRequestOk
    \/ PageRequestFails
    \/ ServerAdd
    \/ ServerRemove
    \/ FilterStep
    \/ WriteOk
    \/ WriteFails

Spec == Init /\ [][Next]_vars

-----------------------------------------------------------------------------
(* Reading the history *)

Last(s) == s[Len(s)]

Requests == SelectSeq(log, LAMBDA e : e.kind = "request")

Writes == SelectSeq(log, LAMBDA e : e.kind = "write")

RECURSIVE Concat(_)
Concat(pages) ==
    IF pages = <<>> THEN <<>> ELSE Head(pages) \o Concat(Tail(pages))

HasCursor(p) == "createdAtLt" \in DOMAIN p

-----------------------------------------------------------------------------
(* fetch_call_logs: C1, C2, C10 *)

\* C1: when fetch_call_logs returns, every record that was at the API for the
\* whole duration of the fetch (there at its start, never removed) is in the
\* returned list.
C1_CompleteCollection ==
    pc = "filter" =>
        \A k \in 1..Len(db[params.assistantId]) :
            LET r == db[params.assistantId][k]
            IN  r.id > 0 => \E j \in 1..Len(all_calls) : all_calls[j] = r

\* C2: the first request carries no cursor; every later request follows a full
\* page and carries the createdAt of that page's last record; the fetch goes on
\* while every page was full and returns on the first page shorter than the
\* limit; the result is the concatenation of the pages received.
C2_RequestsAndPages ==
    LET reqs  == Requests
        pages == [i \in 1..Len(reqs) |-> reqs[i].data]
    IN  /\ \A i \in 1..Len(reqs) :
              /\ reqs[i].params.limit = LIMIT
              /\ i = 1 => ~HasCursor(reqs[i].params)
              /\ i > 1 => /\ reqs[i - 1].ok
                          /\ Len(pages[i - 1]) >= LIMIT
                          /\ HasCursor(reqs[i].params)
                          /\ reqs[i].params.createdAtLt = Last(pages[i - 1]).createdAt
        /\ pc = "fetch" => /\ \A i \in 1..Len(reqs) : Len(pages[i]) >= LIMIT
                           /\ all_calls = Concat(pages)
        /\ pc = "filter" => /\ reqs # <<>>
                            /\ Len(Last(pages)) < LIMIT
                            /\ all_calls = Concat(pages)

\* pages of sizes [100, 100, 37]: three requests, 237 records
C2_Witness ==
    /\ pc = "filter"
    /\ Len(Requests) = 3
    /\ Len(Requests[1].data) = LIMIT
    /\ Len(Requests[2].data) = LIMIT
    /\ Len(Requests[3].data) = 37
    /\ Len(all_calls) = 237

\* C10: against an API that never fails, the fetch returns.
C10_FetchTerminates == <>(pc = "filter")

\* the fetch has returned on an empty third page, after two full pages the
\* second of which ends in records sharing their createdAt
C10_Witness ==
    /\ pc = "filter"
    /\ Len(Requests) = 3
    /\ Last(Requests).data = <<>>
    /\ LET page == Requests[2].data
       IN  page[LIMIT].createdAt = page[LIMIT - 1].createdAt

-----------------------------------------------------------------------------
(* filter_calls: C3, C4, C5 *)

Present(call) == "startedAt" \in DOMAIN call /\ "endedAt" \in DOMAIN call

\* the text is an ISO-8601 timestamp
Parses(time) == ~IsNone(time) /\ time.form \in {"Z", "offset", "naive"}

CarriesOffset(time) == time.form \in {"Z", "offset"}

Instant(time) == IF CarriesOffset(time) THEN time.local - time.off ELSE time.local

\* endedAt minus startedAt is defined
HasDuration(call) ==
    /\ Present(call)
    /\ Parses(call.startedAt) /\ Parses(call.endedAt)
    /\ CarriesOffset(call.startedAt) <=> CarriesOffset(call.endedAt)

Seconds(call) == Instant(call.endedAt) - Instant(call.startedAt)

Qualifies(call, min) == HasDuration(call) /\ Seconds(call) > min

\* both timestamps are there and no duration comes out of them
TimestampFault(call) == Present(call) /\ ~HasDuration(call)

IsNull(call, key) == key \in DOMAIN call /\ IsNone(call[key])

\* call[object][key], "N/A" when the field, or the object around it, is absent
\* or null
FieldOrNA(call, object, key) ==
    IF object \in DOMAIN call /\ ~IsNone(call[object]) /\ key \in DOMAIN call[object]
    THEN call[object][key]
    ELSE "N/A"

ExpectedRow(call) ==
    << call.id, FieldOrNA(call, "customer", "number"), Seconds(call),
       call.startedAt, call.endedAt, FieldOrNA(call, "analysis", "summary"),
       FieldOrNA(call, "analysis", "successEvaluation"), call.transcript >>

QualifyingIds(calls, min) ==
    LET q == SelectSeq(calls, LAMBDA c : Qualifies(c, min))
    IN  [k \in 1..Len(q) |-> q[k].id]

RowIds(rows) == [k \in 1..Len(rows) |-> rows[k][1]]

Calls == {all_calls[i] : i \in 1..Len(all_calls)}

\* C3: filter_calls returns one row for each qualifying record, in input order,
\* and no row for any other record.
C3_ExactlyTheQualifyingRows ==
    pc # "filter" =>
        /\ pc = "write"
        /\ RowIds(filtered_calls) = QualifyingIds(all_calls, min_duration)

\* C4: a record whose timestamps give no duration (malformed, null, or one with
\* an offset and one without) never aborts the batch: filter_calls returns, with
\* the rows of the qualifying records before and after it.  (Batches holding a
\* null customer or analysis object are left to C5.)
C4_TimestampFaultNeverAborts ==
    ( /\ pc # "filter"
      /\ \E c \in Calls : TimestampFault(c)
      /\ \A c \in Calls : ~IsNull(c, "customer") /\ ~IsNull(c, "analysis") )
    => /\ pc = "write"
       /\ RowIds(filtered_calls) = QualifyingIds(all_calls, min_duration)

\* C5: a qualifying record whose phone number, summary or success evaluation
\* is absent (the field, or the object around it, absent or null) still gets
\* its row, with "N/A" in that column and the other columns as in the record.
\* (Batches holding a timestamp fault are left to C4.)
C5_MissingOptionalFieldIsNoError ==
    ( /\ pc # "filter"
      /\ \A c \in Calls : ~TimestampFault(c) )
    => \A c \in Calls :
          Qualifies(c, min_duration) =>
              \E k \in 1..Len(filtered_calls) : filtered_calls[k] = ExpectedRow(c)

-----------------------------------------------------------------------------
(* main and the pipeline: C6, C7, C8, C9 *)

Index(pair) == CHOOSE i \in 1..Len(PairNames) : PairNames[i] = pair

\* the pair an event of the history belongs to: by the assistant id a request
\* asks for, by the range a write targets
EventPair(e) ==
    IF e.kind = "request"
    THEN CHOOSE p \in Range(PairNames) : AssistantId(p) = e.params.assistantId
    ELSE CHOOSE p \in Range(PairNames) : RANGE_NAME(p) = e.range

Untouched(range) == sheet[range] = <<>>

\* C6: an unknown sheet name is reported and main returns without a request or
\* a write; a configured name processes that pair only; no name, all four.
C6_SheetSelection ==
    /\ (sheet_name # NoName /\ sheet_name \notin Range(PairNames)) =>
          /\ Requests = <<>> /\ Writes = <<>>
          /\ \A r \in Ranges : Untouched(r)
          /\ pc \in {"main", "done"} /\ error = ""
          /\ pc = "done" => log = <<[kind |-> "print", text |-> "Invalid sheet name"]>>
    /\ sheet_name \in Range(PairNames) =>
          /\ \A i \in 1..Len(Requests) :
                Requests[i].params.assistantId = AssistantId(sheet_name)
          /\ \A i \in 1..Len(Writes) : Writes[i].range = RANGE_NAME(sheet_name)
          /\ \A r \in Ranges \ {RANGE_NAME(sheet_name)} : Untouched(r)
          /\ pc = "done" => Len(Writes) = 1 /\ Writes[1].ok /\ Requests # <<>>
    /\ (sheet_name = NoName /\ pc = "done") =>
          /\ [i \in 1..Len(Writes) |-> Writes[i].range]
                = [i \in 1..Len(PairNames) |-> RANGE_NAME(PairNames[i])]
          /\ \A i \in 1..Len(Writes) : Writes[i].ok

C6_Witness ==
    /\ sheet_name = "no_such_sheet"
    /\ pc = "done"
    /\ Len(log) = 1 /\ log[1].kind = "print"

\* C7: a failed page request is the last thing the run does: it is not retried,
\* no request and no write follows it, the run ends with the exception, and the
\* range of the pair being fetched has not been written.
C7_HttpFailureAborts ==
    \A i \in 1..Len(log) :
        (log[i].kind = "request" /\ ~log[i].ok) =>
            /\ i = Len(log)
            /\ pc = "raised"
            /\ \A j \in 1..Len(Writes) :
                  Writes[j].range # RANGE_NAME(EventPair(log[i]))
            /\ Untouched(RANGE_NAME(EventPair(log[i])))

\* an all-pairs run fails on the second page of a later pair
C7_Witness ==
    /\ sheet_name = NoName
    /\ pc = "raised"
    /\ Last(log).kind = "request" /\ ~Last(log).ok
    /\ HasCursor(Last(log).params)
    /\ Len(all_calls) = LIMIT
    /\ Len(Writes) >= 1 /\ Len(todo) >= 2

WriteFailed == log # <<>> /\ Last(log).kind = "write" /\ ~Last(log).ok

\* C8 as stated: when a write fails, the run has modified no range.
C8_NothingModifiedBefore ==
    WriteFailed => \A r \in Ranges : Untouched(r)

\* the pairs an all-pairs run processes before `pair`
Before(pair) ==
    IF sheet_name = NoName
    THEN {PairNames[i] : i \in 1..(Index(pair) - 1)}
    ELSE {}

\* C8 amended: when a write fails, the range of the pair being written has not
\* been modified, and the ranges the run has modified are exactly those of the
\* pairs processed before it (none in a single-pair run).
C8_OnlyEarlierPairsModified ==
    WriteFailed =>
        /\ Untouched(RANGE_NAME(todo[1]))
        /\ \A p \in Range(PairNames) :
              ~Untouched(RANGE_NAME(p)) <=> p \in Before(todo[1])

C8_Witness ==
    /\ WriteFailed
    /\ sheet_name = NoName
    /\ Len(todo) = 2
    /\ ~Untouched(RANGE_NAME(PairNames[1])) /\ ~Untouched(RANGE_NAME(PairNames[2]))

\* the requests and writes of the run
Events == SelectSeq(log, LAMBDA e : e.kind \in {"request", "write"})

\* the records received by the requests made for `pair` among the first n events
Fetched(pair, n) ==
    {r \in UNION {Range(Events[i].data) :
                     i \in {k \in 1..n : Events[k].kind = "request"}} :
        r.assistantId = AssistantId(pair)}

\* C9: in an all-pairs run the events of the history go pair by pair in the
\* configured order: a pair's requests, then its one write, which follows the
\* return of a page shorter than the limit, targets the pair's own range and
\* consists of the header and of rows of records fetched for the pair's own
\* assistant; only after a successful write does the next pair's first request
\* come; a run that completes has written all four ranges.
C9_PairsRunInOrder ==
    sheet_name = NoName =>
        LET ev     == Events
            idx(i) == Index(EventPair(ev[i]))
        IN  /\ ev # <<>> => ev[1].kind = "request" /\ idx(1) = 1
            /\ \A i \in 1..(Len(ev) - 1) :
                  /\ ev[i].ok
                  /\ IF ev[i].kind = "write"
                     THEN ev[i + 1].kind = "request" /\ idx(i + 1) = idx(i) + 1
                     ELSE /\ idx(i + 1) = idx(i)
                          /\ ev[i + 1].kind = "write" <=> Len(ev[i].data) < LIMIT
            /\ \A i \in 1..Len(ev) :
                  ev[i].kind = "write" =>
                      /\ i > 1 /\ ev[i - 1].kind = "request"
                      /\ ev[i].values # <<>> /\ ev[i].values[1] = HeaderRow
                      /\ LET ids == {r.id : r \in Fetched(EventPair(ev[i]), i)}
                         IN  \A k \in 2..Len(ev[i].values) :
                                ev[i].values[k][1] \in ids
            /\ pc = "done" => Len(Writes) = Len(PairNames)

\* a completed all-pairs run with a header-only sheet, a sheet with rows, and
\* a pair that took two page requests
C9_Witness ==
    /\ sheet_name = NoName
    /\ pc = "done"
    /\ \E i, j \in 1..Len(Writes) :
          Len(Writes[i].values) = 1 /\ Len(Writes[j].values) > 1
    /\ Len(Requests) > Len(PairNames)

====
